---- MODULE Spec2Model ----
(***************************************************************************)
(* Model of the echoflow pipeline orchestration core:                      *)
(*   - init_flow          (stages_v2/subflows/initialization_flow.py)      *)
(*   - parse_raw_json     (convert/tasks.py)                               *)
(*   - process_output_transects (stages/utils/file_utils.py)               *)
(* Each part has its own specification (SpecFlow, SpecChunk, SpecAgg); the *)
(* variables of the other parts stay at their idle value.                  *)
(***************************************************************************)
EXTENDS Integers, Sequences, FiniteSets, TLC

VARIABLES
    \* ---- init_flow ----
    pipeline,             \* Recipe: process_list, scheduler_address, use_local_dask
    keeps_runner,         \* behaviour of get_prefect_config_dict (see GetPrefectConfigDict)
    pc,                   \* position of init_flow
    pidx, sidx,           \* the two for-loop cursors (1-based)
    client,               \* the local variable `client`
    prefect_config_dict,  \* only its "task_runner" entry is tracked
    data, output,         \* the locals `data` and `output`
    clients,              \* history: every Client(...) construction
    closeCalls,           \* history: every evaluation of client.close()
    resolved,             \* history: every dynamic_function_call
    calls,                \* history: every stage invocation function(dataset, stage, data)
    error,                \* the exception that left init_flow, if any
    result,               \* the value returned by init_flow, if any
    \* ---- parse_raw_json ----
    raw_dicts, all_weeks, chunkPc,
    \* ---- process_output_transects ----
    name, ed_list, aggResult, aggPc,
    regrouped,            \* result of aggregating the returned data once more
    \* ---- parse_file_path ----
    file_match,           \* outcome of matcher.search(raw_file)
    parsed,               \* what parse_file_path returned or raised
    parsePc,
    \* ---- download_temp_file ----
    raw_file,             \* the raw file dictionary (file_path, local_path)
    target,               \* what the working directory holds at out_path
    dlCalls,              \* history: every call of download_temp_file
    \* ---- echoflow_start ----
    profiles,             \* ~/.prefect/profiles.toml: profile name -> keys it sets
    active,               \* ~/.prefect/profiles.toml: config["active"]
    internet,             \* what check_internet_connection() returns
    echoflow_config,      \* TRUE iff the "echoflow-config" block is stored
    start_options,        \* the options argument (storage_options_override)
    storage_options,      \* storage options handed on
    triggerCalls,         \* history: number of pipeline_trigger calls
    startError,           \* exception that left echoflow_start
    startPc,              \* position inside echoflow_start
    \* ---- update_base_config ----
    stored,               \* TRUE iff an "echoflow-config" block is stored
    blocks,               \* the blocks list of the stored "echoflow-config"
    saved                 \* history: the block of every update_base_config call

flowVars == <<pipeline, keeps_runner, pc, pidx, sidx, client, prefect_config_dict, data, output,
              clients, closeCalls, resolved, calls, error, result>>
chunkVars == <<raw_dicts, all_weeks, chunkPc>>
aggVars == <<name, ed_list, aggResult, aggPc, regrouped>>
parseVars == <<file_match, parsed, parsePc>>
dlVars == <<raw_file, target, dlCalls>>
startVars == <<profiles, active, internet, echoflow_config, start_options,
               storage_options, triggerCalls, startError, startPc>>
configVars == <<stored, blocks, saved>>
vars == <<flowVars, chunkVars, aggVars, parseVars, dlVars, startVars, configVars>>

(***************************************************************************)
(* Bounds of the model.                                                    *)
(***************************************************************************)
MaxProcesses == 2
MaxTotalStages == 3
MaxDay == 10
MaxDup == 1
MaxLead == 7
MaxEd == 4
MaxTransect == 3
MaxDownloadCalls == 3
MaxConfigCalls == 3

(***************************************************************************)
(* init_flow: values                                                       *)
(***************************************************************************)
None == "None"
\* A stage: `runner` says whether the stage's own prefect configuration
\* sets a task_runner.
Stage == [runner : BOOLEAN]

RECURSIVE TotalStages(_)
TotalStages(ps) ==
    IF ps = <<>> THEN 0 ELSE Len(Head(ps)) + TotalStages(Tail(ps))

StageLists == UNION {[1..len -> Stage] : len \in 0..MaxTotalStages}
ProcessLists ==
    {ps \in UNION {[1..k -> StageLists] : k \in 0..MaxProcesses} :
        TotalStages(ps) <= MaxTotalStages}

Recipes ==
    [process_list : ProcessLists,
     scheduler_address : {None, "tcp://scheduler"},
     use_local_dask : BOOLEAN]

\* Values that flow between stages: all are triples so that they compare.
RawData == <<"raw", 0, 0>>
Unbound == <<"unbound", 0, 0>>
NoResult == <<"none", 0, 0>>
StageOutput(p, s) == <<"out", p, s>>

NoError == [kind |-> "none", at |-> <<0, 0>>]

(***************************************************************************)
(* init_flow: helpers                                                      *)
(***************************************************************************)
CurrentStage == pipeline.process_list[pidx][sidx]

\* get_prefect_config_dict(stage, pipeline, prefect_config_dict): merges the
\* stage's own options into the dictionary it is given.  A stage that
\* configures a task_runner overrides the entry; otherwise the entry is
\* either the one passed in (keeps) or absent.
GetPrefectConfigDict(stage, keeps, pcd) ==
    [task_runner |->
        IF stage.runner THEN "stage"
        ELSE IF keeps THEN pcd.task_runner ELSE None]

\* line 45: pipeline.scheduler_address is not None and use_local_dask == False
NeedsRemote(p) ==
    p.scheduler_address # None /\ p.use_local_dask = FALSE

NeedsLocalAnyRecipe(p, pcd) ==
    pcd.task_runner = None
\* line 49: use_local_dask == True and ... .get("task_runner") is None
NeedsLocal(p, pcd) ==
    p.use_local_dask = TRUE /\ pcd.task_runner = None

ClientMissingAlways(c) ==
    TRUE
\* lines 46 and 50: if client is None
ClientMissing(c) ==
    c = None

\* lines 48 and 53: DaskTaskRunner(address=client.scheduler.address)
DaskTaskRunner(c) ==
    IF c = "remote" THEN "dask:remote" ELSE "dask:local"

\* line 63: the condition under which client.close() is evaluated
ClosesClient(p) ==
    p.scheduler_address = None /\ p.use_local_dask = TRUE

DataAfterStageKept(prev, out) ==
    prev
\* line 58: data = output
DataAfterStage(prev, out) ==
    out

RaisedPcSwallowed ==
    "loop"
\* lines 40-60 have no try/except: an exception leaves init_flow at once
RaisedPc ==
    "raised"

Raise(kind) ==
    /\ error' = [kind |-> kind, at |-> <<pidx, sidx>>]
    /\ pc' = RaisedPc

(***************************************************************************)
(* init_flow: initial state (lines 24-39)                                  *)
(***************************************************************************)
IdleChunk ==
    /\ raw_dicts = <<>>
    /\ all_weeks = <<>>
    /\ chunkPc = "idle"

\* process_output_transects has not been called
NoAggResult == [kind |-> "none", message |-> <<>>, outputs |-> <<>>]

IdleAgg ==
    /\ name = ""
    /\ ed_list = <<>>
    /\ aggResult = NoAggResult
    /\ regrouped = NoAggResult
    /\ aggPc = "idle"

\* parse_file_path has not been called
NoMatch == [matched |-> FALSE, groupdict |-> <<>>]
NoParsed == [kind |-> "none", dict |-> <<>>]

IdleParse ==
    /\ file_match = NoMatch
    /\ parsed = NoParsed
    /\ parsePc = "idle"

\* download_temp_file has not been called
IdleDownload ==
    /\ raw_file = [file_path |-> <<>>, local_path |-> <<>>]
    /\ target = "absent"
    /\ dlCalls = <<>>

\* echoflow_start has not been called
IdleStart ==
    /\ profiles = <<>>
    /\ active = "None"
    /\ internet = TRUE
    /\ echoflow_config = FALSE
    /\ start_options = "missing"
    /\ storage_options = "None"
    /\ triggerCalls = 0
    /\ startError = "none"
    /\ startPc = "idle"

\* update_base_config has not been called and nothing is stored
IdleConfig ==
    /\ stored = FALSE
    /\ blocks = <<>>
    /\ saved = <<>>

IdleFlow ==
    /\ pipeline = [process_list |-> <<>>, scheduler_address |-> None,
                   use_local_dask |-> FALSE]
    /\ keeps_runner = FALSE
    /\ pc = "idle"
    /\ pidx = 1
    /\ sidx = 1
    /\ client = None
    /\ prefect_config_dict = [task_runner |-> None]
    /\ data = RawData
    /\ output = Unbound
    /\ clients = <<>>
    /\ closeCalls = <<>>
    /\ resolved = <<>>
    /\ calls = <<>>
    /\ error = NoError
    /\ result = NoResult

InitFlow ==
    /\ pipeline \in Recipes
    /\ keeps_runner \in BOOLEAN
    /\ pc = "loop"
    /\ pidx = 1
    /\ sidx = 1
    /\ client = None
    /\ prefect_config_dict = [task_runner |-> None]
    /\ data = RawData
    /\ output = Unbound
    /\ clients = <<>>
    /\ closeCalls = <<>>
    /\ resolved = <<>>
    /\ calls = <<>>
    /\ error = NoError
    /\ result = NoResult
    /\ IdleChunk
    /\ IdleAgg
    /\ IdleParse
    /\ IdleDownload
    /\ IdleStart
    /\ IdleConfig

(***************************************************************************)
(* init_flow: steps                                                        *)
(***************************************************************************)
\* lines 40-41: the two for statements
LoopHead ==
    /\ pc = "loop"
    /\ \/ /\ pidx > Len(pipeline.process_list)
          /\ pc' = "teardown"
          /\ UNCHANGED <<pidx, sidx>>
       \/ /\ pidx <= Len(pipeline.process_list)
          /\ sidx > Len(pipeline.process_list[pidx])
          /\ pidx' = pidx + 1
          /\ sidx' = 1
          /\ pc' = "loop"
       \/ /\ pidx <= Len(pipeline.process_list)
          /\ sidx <= Len(pipeline.process_list[pidx])
          /\ pc' = "resolve"
          /\ UNCHANGED <<pidx, sidx>>
    /\ UNCHANGED <<chunkVars, aggVars, parseVars, dlVars, startVars, configVars>>
    /\ UNCHANGED <<pipeline, keeps_runner, client, prefect_config_dict, data, output,
                   clients, closeCalls, resolved, calls, error, result>>

\* line 42: function = dynamic_function_call(stage.module, stage.name)
Resolve ==
    /\ pc = "resolve"
    /\ resolved' = Append(resolved, <<pidx, sidx>>)
    /\ \/ /\ pc' = "config"
          /\ UNCHANGED error
       \/ Raise("resolve")
    /\ UNCHANGED <<chunkVars, aggVars, parseVars, dlVars, startVars, configVars>>
    /\ UNCHANGED <<pipeline, keeps_runner, pidx, sidx, client, prefect_config_dict,
                   data, output, clients, closeCalls, calls, result>>

\* line 43: prefect_config_dict = get_prefect_config_dict(...), which is
\* taken to hand back a dictionary (the `is not None` test of line 49 then
\* always passes) or to raise
Configure ==
    /\ pc = "config"
    /\ \/ /\ prefect_config_dict' =
                 GetPrefectConfigDict(CurrentStage, keeps_runner, prefect_config_dict)
          /\ pc' = "backend"
          /\ UNCHANGED error
       \/ /\ Raise("config")
          /\ UNCHANGED prefect_config_dict
    /\ UNCHANGED <<chunkVars, aggVars, parseVars, dlVars, startVars, configVars>>
    /\ UNCHANGED <<pipeline, keeps_runner, pidx, sidx, client, data, output,
                   clients, closeCalls, resolved, calls, result>>

\* A Client is constructed (line 47, or lines 51-52 with a LocalCluster).
NewClient(kind) ==
    /\ client' = kind
    /\ clients' = Append(clients,
            [kind |-> kind, at |-> <<pidx, sidx>>,
             use_local_dask |-> pipeline.use_local_dask,
             runner_before |-> prefect_config_dict.task_runner])

\* lines 45-53
Backend ==
    /\ pc = "backend"
    /\ \/ /\ NeedsRemote(pipeline)
          /\ \/ /\ ClientMissing(client)
                /\ NewClient("remote")
                /\ prefect_config_dict' = [task_runner |-> DaskTaskRunner("remote")]
                /\ pc' = "invoke"
                /\ UNCHANGED error
             \/ /\ ClientMissing(client)
                /\ Raise("connect")
                /\ UNCHANGED <<client, clients, prefect_config_dict>>
             \/ /\ ~ClientMissing(client)
                /\ prefect_config_dict' = [task_runner |-> DaskTaskRunner(client)]
                /\ pc' = "invoke"
                /\ UNCHANGED <<client, clients, error>>
       \/ /\ ~NeedsRemote(pipeline)
          /\ NeedsLocal(pipeline, prefect_config_dict)
          /\ \/ /\ ClientMissing(client)
                /\ NewClient("local")
                /\ prefect_config_dict' = [task_runner |-> DaskTaskRunner("local")]
                /\ pc' = "invoke"
                /\ UNCHANGED error
             \/ /\ ClientMissing(client)
                /\ Raise("cluster")
                /\ UNCHANGED <<client, clients, prefect_config_dict>>
             \/ /\ ~ClientMissing(client)
                /\ prefect_config_dict' = [task_runner |-> DaskTaskRunner(client)]
                /\ pc' = "invoke"
                /\ UNCHANGED <<client, clients, error>>
       \/ /\ ~NeedsRemote(pipeline)
          /\ ~NeedsLocal(pipeline, prefect_config_dict)
          /\ pc' = "invoke"
          /\ UNCHANGED <<client, clients, prefect_config_dict, error>>
    /\ UNCHANGED <<chunkVars, aggVars, parseVars, dlVars, startVars, configVars>>
    /\ UNCHANGED <<pipeline, keeps_runner, pidx, sidx, data, output,
                   closeCalls, resolved, calls, result>>

\* lines 55-60: with_options, the call of the stage, data = output
Invoke ==
    /\ pc = "invoke"
    /\ \/ /\ output' = StageOutput(pidx, sidx)
          /\ data' = DataAfterStage(data, output')
          /\ calls' = Append(calls,
                 [stage |-> <<pidx, sidx>>, input |-> data, output |-> output',
                  task_runner |-> prefect_config_dict.task_runner,
                  client |-> client])
          /\ sidx' = sidx + 1
          /\ pc' = "loop"
          /\ UNCHANGED error
       \/ /\ Raise("invoke")
          /\ UNCHANGED <<output, data, calls, sidx>>
    /\ UNCHANGED <<chunkVars, aggVars, parseVars, dlVars, startVars, configVars>>
    /\ UNCHANGED <<pipeline, keeps_runner, pidx, client, prefect_config_dict,
                   clients, closeCalls, resolved, result>>

\* lines 63-65: client.close() is evaluated on whatever `client` holds; on
\* None it raises AttributeError.
Teardown ==
    /\ pc = "teardown"
    /\ \/ /\ ClosesClient(pipeline)
          /\ client # None
          /\ closeCalls' = Append(closeCalls, client)
          /\ pc' = "return"
          /\ UNCHANGED error
       \/ /\ ClosesClient(pipeline)
          /\ client = None
          /\ closeCalls' = Append(closeCalls, client)
          /\ Raise("close")
       \/ /\ ~ClosesClient(pipeline)
          /\ pc' = "return"
          /\ UNCHANGED <<closeCalls, error>>
    /\ UNCHANGED <<chunkVars, aggVars, parseVars, dlVars, startVars, configVars>>
    /\ UNCHANGED <<pipeline, keeps_runner, pidx, sidx, client, prefect_config_dict,
                   data, output, clients, resolved, calls, result>>

\* line 66: return output (UnboundLocalError when no stage ever ran)
Return ==
    /\ pc = "return"
    /\ \/ /\ output # Unbound
          /\ result' = output
          /\ pc' = "returned"
          /\ UNCHANGED error
       \/ /\ output = Unbound
          /\ Raise("return")
          /\ UNCHANGED result
    /\ UNCHANGED <<chunkVars, aggVars, parseVars, dlVars, startVars, configVars>>
    /\ UNCHANGED <<pipeline, keeps_runner, pidx, sidx, client, prefect_config_dict,
                   data, output, clients, closeCalls, resolved, calls>>

NextFlow ==
    \/ LoopHead
    \/ Resolve
    \/ Configure
    \/ Backend
    \/ Invoke
    \/ Teardown
    \/ Return

SpecFlow == InitFlow /\ [][NextFlow]_vars

(***************************************************************************)
(* init_flow: properties                                                   *)
(***************************************************************************)
\* The stages of the recipe in declared order, as <<process, stage>> pairs.
RECURSIVE PositionsFrom(_, _)
PositionsFrom(ps, p) ==
    IF p > Len(ps) THEN <<>>
    ELSE [s \in 1..Len(ps[p]) |-> <<p, s>>] \o PositionsFrom(ps, p + 1)

DeclaredOrder == PositionsFrom(pipeline.process_list, 1)

\* position a comes strictly before position b
Before(a, b) == a[1] < b[1] \/ (a[1] = b[1] /\ a[2] < b[2])

LocalClients == {i \in 1..Len(clients) : clients[i].kind = "local"}
RemoteClients == {i \in 1..Len(clients) : clients[i].kind = "remote"}

\* C1: in one run at most one LocalCluster is created, client.close() is
\* evaluated at most once, and only on a client the run created from a
\* local cluster (never on a remote client, never when there is no client).
C1_CloseOnlyOwnLocal ==
    /\ Cardinality(LocalClients) <= 1
    /\ Len(closeCalls) <= 1
    /\ \A i \in 1..Len(closeCalls) : closeCalls[i] = "local"

\* C2: when init_flow returns after all stages returned normally, the client
\* has been closed if and only if a local cluster was created in the run.
C2_ClosedIffCreated ==
    pc = "returned" =>
        ((LocalClients # {}) <=> (closeCalls = <<"local">>))

\* C3: a run aborted by a stage resolution, backend connection or stage
\* invocation that raised has closed its locally created client, and has
\* closed no remote one.
C3_AbortTearsDown ==
    error.kind \in {"resolve", "config", "connect", "cluster", "invoke"} =>
        /\ client = "local" =>
               \E i \in 1..Len(closeCalls) : closeCalls[i] = "local"
        /\ \A i \in 1..Len(closeCalls) : closeCalls[i] # "remote"

\* C4: the stages are invoked once each in declared order; the first gets
\* the raw-file collection, each later one the value its predecessor
\* returned; init_flow returns the output of the last stage.
C4_OrderedThreading ==
    /\ Len(calls) <= Len(DeclaredOrder)
    /\ \A i \in 1..Len(calls) :
          /\ calls[i].stage = DeclaredOrder[i]
          /\ calls[i].input = IF i = 1 THEN RawData ELSE calls[i - 1].output
    /\ \A i, j \in 1..Len(calls) : i < j => Before(calls[i].stage, calls[j].stage)
    /\ calls # <<>> => Before(calls[Len(calls)].stage, <<pidx, sidx>>)
    /\ pc = "returned" =>
          /\ Len(calls) = Len(DeclaredOrder)
          /\ result = calls[Len(calls)].output
          /\ LET ps == pipeline.process_list
             IN  ps[Len(ps)] # <<>> =>
                    calls[Len(calls)].stage = <<Len(ps), Len(ps[Len(ps)])>>

C4_Witness ==
    /\ pc = "returned"
    /\ Len(pipeline.process_list) = 2
    /\ Len(calls) = 3
    /\ result = StageOutput(2, 2)

\* C5: once the resolution or the invocation of a stage has raised, the
\* run is over: nothing was resolved or invoked past that stage and
\* init_flow returns no result.
C5_RaiseHalts ==
    error.kind \in {"resolve", "config", "invoke"} =>
        /\ pc = "raised"
        /\ result = NoResult
        /\ resolved[Len(resolved)] = error.at
        /\ \A i \in 1..Len(resolved) : ~Before(error.at, resolved[i])
        /\ \A i \in 1..Len(calls) : Before(calls[i].stage, error.at)

C5_Witness ==
    /\ error.kind = "invoke"
    /\ error.at = <<1, 2>>
    /\ Len(calls) = 1
    /\ Len(DeclaredOrder) = 3

\* C6: with a scheduler address and use_local_dask false, the run connects
\* once (at the first stage), every stage dispatches through that one
\* client, no local cluster is created, and a failed connection aborts the
\* run with no client at all.
C6_RemoteMode ==
    (pipeline.scheduler_address # None /\ ~pipeline.use_local_dask) =>
        /\ Len(clients) <= 1
        /\ \A i \in 1..Len(clients) :
              clients[i].kind = "remote" /\ clients[i].at = DeclaredOrder[1]
        /\ \A i \in 1..Len(calls) :
              calls[i].task_runner = "dask:remote" /\ calls[i].client = "remote"
        /\ calls # <<>> => Len(clients) = 1
        /\ error.kind = "connect" =>
              /\ pc = "raised"
              /\ clients = <<>>
              /\ client = None
              /\ calls = <<>>
        /\ error.kind # "cluster"

C6_Witness ==
    /\ pipeline.scheduler_address # None
    /\ ~pipeline.use_local_dask
    /\ pc = "returned"
    /\ Len(calls) = 3
    /\ Len(clients) = 1

\* C7: a local cluster is created only under use_local_dask at a stage
\* whose configuration holds no task_runner; with no scheduler address and
\* use_local_dask false nothing is created or closed and no stage gets a
\* Dask runner.
C7_LocalOnlyOnRequest ==
    /\ \A i \in LocalClients :
          clients[i].use_local_dask /\ clients[i].runner_before = None
    /\ (pipeline.scheduler_address = None /\ ~pipeline.use_local_dask) =>
          /\ clients = <<>>
          /\ client = None
          /\ closeCalls = <<>>
          /\ prefect_config_dict.task_runner \in {None, "stage"}
          /\ \A i \in 1..Len(calls) :
                calls[i].task_runner \in {None, "stage"} /\ calls[i].client = None

C7_Witness ==
    /\ Len(calls) = 2
    /\ calls[1].task_runner = "stage"
    /\ calls[2].task_runner = "dask:local"
    /\ Len(clients) = 1
    /\ clients[1].at = calls[2].stage

(***************************************************************************)
(* parse_raw_json: weekly chunking (convert/tasks.py lines 93-113)         *)
(***************************************************************************)
\* line 94: number of days for a week chunk
n == 7

Min(a, b) == IF a <= b THEN a ELSE b

SetMin(S) == CHOOSE x \in S : \A y \in S : x <= y

\* sorted(...) of a set of integers
RECURSIVE Sorted(_)
Sorted(S) ==
    IF S = {} THEN <<>>
    ELSE LET m == SetMin(S) IN <<m>> \o Sorted(S \ {m})

Reverse(seq) == [i \in 1..Len(seq) |-> seq[Len(seq) + 1 - i]]

\* Python slice seq[i:j] (0-based, clipped at the end of the sequence)
Slice(seq, i, j) == SubSeq(seq, i + 1, Min(j, Len(seq)))

\* range(start, stop, step) as a sequence
RECURSIVE Range(_, _, _)
Range(start, stop, step) ==
    IF start >= stop THEN <<>>
    ELSE <<start>> \o Range(start + step, stop, step)

\* itertools.chain.from_iterable over a sequence of sequences
RECURSIVE ChainFromIterable(_)
ChainFromIterable(seqs) ==
    IF seqs = <<>> THEN <<>>
    ELSE Head(seqs) \o ChainFromIterable(Tail(seqs))

\* the distinct jday values in order of first appearance (no sort)
RECURSIVE FirstAppearance(_, _)
FirstAppearance(raw, seen) ==
    IF raw = <<>> THEN <<>>
    ELSE IF Head(raw).jday \in seen THEN FirstAppearance(Tail(raw), seen)
    ELSE <<Head(raw).jday>>
            \o FirstAppearance(Tail(raw), seen \cup {Head(raw).jday})

AllJdaysUnsorted(raw) ==
    FirstAppearance(raw, {})
\* line 96: all_jdays = sorted({r.get('jday') for r in raw_dicts})
AllJdays(raw) ==
    Sorted({raw[i].jday : i \in 1..Len(raw)})

SplitDaysOverlapping(jdays) ==
    LET starts == Range(0, Len(jdays), n)
    IN  [k \in 1..Len(starts) |-> Slice(jdays, starts[k], starts[k] + n + 1)]
\* lines 97-99: split_days = [all_jdays[i : i + n] for i in range(0, len, n)]
SplitDays(jdays) ==
    LET starts == Range(0, Len(jdays), n)
    IN  [k \in 1..Len(starts) |-> Slice(jdays, starts[k], starts[k] + n)]

\* lines 101-106: day_dict maps each jday to its records in input order
RECURSIVE DayDictFrom(_, _)
DayDictFrom(raw, day_dict) ==
    IF raw = <<>> THEN day_dict
    ELSE LET r == Head(raw)
             mint == r.jday
             base == IF mint \in DOMAIN day_dict
                     THEN day_dict
                     ELSE [d \in DOMAIN day_dict \cup {mint} |->
                              IF d = mint THEN <<>> ELSE day_dict[d]]
         IN  DayDictFrom(Tail(raw),
                 [base EXCEPT ![mint] = Append(base[mint], r)])

DayDict(raw) == DayDictFrom(raw, [d \in {} |-> <<>>])

\* lines 108-113
AllWeeks(raw) ==
    LET split_days == SplitDays(AllJdays(raw))
        day_dict == DayDict(raw)
    IN  [w \in 1..Len(split_days) |->
            ChainFromIterable(
                [i \in 1..Len(split_days[w]) |-> day_dict[split_days[w][i]]])]

\* The inputs: the days 1..lead (lead is 0 or MaxLead) and after them any
\* set of days among the next MaxDay, up to MaxDup of these with a second
\* record, in ascending or descending order of arrival.
RawRecords(days) == [i \in 1..Len(days) |-> [id |-> i, jday |-> days[i]]]

ChunkInput(S, D, descending) ==
    IF descending
    THEN RawRecords(Reverse(Sorted(S) \o Sorted(D)))
    ELSE RawRecords(Sorted(S) \o Sorted(D))

InitChunk ==
    /\ \E lead \in {0, MaxLead} :
          \E S \in SUBSET ((lead + 1)..(lead + MaxDay)) :
             \E D \in {X \in SUBSET S : Cardinality(X) <= MaxDup} :
                \E descending \in BOOLEAN :
                   raw_dicts = ChunkInput((1..lead) \cup S, D, descending)
    /\ all_weeks = <<>>
    /\ chunkPc = "start"
    /\ IdleFlow
    /\ IdleAgg
    /\ IdleParse
    /\ IdleDownload
    /\ IdleStart
    /\ IdleConfig

ParseRawJson ==
    /\ chunkPc = "start"
    /\ all_weeks' = AllWeeks(raw_dicts)
    /\ chunkPc' = "done"
    /\ UNCHANGED <<raw_dicts, flowVars, aggVars, parseVars, dlVars, startVars, configVars>>

NextChunk ==
    \/ ParseRawJson

SpecChunk == InitChunk /\ [][NextChunk]_vars

(***************************************************************************)
(* parse_raw_json: properties                                              *)
(***************************************************************************)
InputDays == {raw_dicts[i].jday : i \in 1..Len(raw_dicts)}
BatchDays(w) == {all_weeks[w][i].jday : i \in 1..Len(all_weeks[w])}
BatchIds(w) == {all_weeks[w][i].id : i \in 1..Len(all_weeks[w])}
CeilDiv(a, b) == (a + b - 1) \div b
\* how many times the record r occurs in the batch w
Occurrences(r, w) ==
    Cardinality({i \in 1..Len(all_weeks[w]) : all_weeks[w][i] = r})

\* C8: ceil(distinct / 7) batches, each over at most 7 distinct days,
\* pairwise disjoint, every input record in exactly one batch exactly once.
C8_Partition ==
    chunkPc = "done" =>
        /\ Len(all_weeks) = CeilDiv(Cardinality(InputDays), 7)
        /\ (raw_dicts = <<>> => all_weeks = <<>>)
        /\ \A w \in 1..Len(all_weeks) :
              Cardinality(BatchDays(w)) <= 7 /\ all_weeks[w] # <<>>
        /\ \A v, w \in 1..Len(all_weeks) :
              v # w => BatchIds(v) \cap BatchIds(w) = {} /\ BatchDays(v) \cap BatchDays(w) = {}
        /\ \A i \in 1..Len(raw_dicts) :
              \E w \in 1..Len(all_weeks) :
                 /\ Occurrences(raw_dicts[i], w) = 1
                 /\ \A v \in 1..Len(all_weeks) :
                       v # w => Occurrences(raw_dicts[i], v) = 0

C8_Witness ==
    /\ chunkPc = "done"
    /\ Cardinality(InputDays) = 16
    /\ Len(raw_dicts) = 17
    /\ Len(all_weeks) = 3
    /\ Len(all_weeks[2]) = 8
    /\ Len(all_weeks[3]) = 2

\* rank of a day among the distinct input days, from 0
Rank(d) == Cardinality({e \in InputDays : e < d})

\* C9: batch k (from 0) holds exactly the records whose jday has rank
\* 7k .. 7k+6 among the distinct sorted days; batches ascend.
C9_ByRank ==
    chunkPc = "done" =>
        /\ \A w \in 1..Len(all_weeks) :
              BatchIds(w) =
                 {raw_dicts[i].id : i \in
                    {j \in 1..Len(raw_dicts) :
                        Rank(raw_dicts[j].jday) \in (7 * (w - 1))..(7 * (w - 1) + 6)}}
        /\ \A w \in 1..(Len(all_weeks) - 1) :
              \A a \in BatchDays(w), b \in BatchDays(w + 1) : a < b
        /\ InputDays = (1..7) \cup {9, 10} =>
              /\ Len(all_weeks) = 2
              /\ BatchDays(1) = 1..7
              /\ BatchDays(2) = {9, 10}

C9_Witness ==
    /\ chunkPc = "done"
    /\ InputDays = (1..7) \cup {9, 10}
    /\ raw_dicts[1].jday = 10
    /\ BatchDays(1) = 1..7
    /\ BatchDays(2) = {9, 10}

(***************************************************************************)
(* process_output_transects (stages/utils/file_utils.py lines 297-344)     *)
(***************************************************************************)
ProcessNames == {"Convert", "Combine"}

\* lines 331-333: the text of the ValueError, as its concatenated pieces
\* (the backquotes around use_offline are left out)
ErrorMessage(nm) ==
    <<"Could not complete ", nm,
      " successfully since 1 or more raw files",
      "failed to convert. Try fixing or skipping the files from the process.",
      "If use_offline flag is set to true, processed files will be skipped the next run.">>

\* line 330: ed["error"] == True
HasError(ed) ==
    ed.error = TRUE

\* lines 334-338 on transect_dict, a dict kept in insertion order: here a
\* sequence of [transect, data] entries
DictKeys(transect_dict) ==
    {transect_dict[k].transect : k \in 1..Len(transect_dict)}

DictAddPrepending(transect_dict, ed) ==
    IF ed.transect \in DictKeys(transect_dict)
    THEN [k \in 1..Len(transect_dict) |->
            IF transect_dict[k].transect = ed.transect
            THEN [transect_dict[k] EXCEPT !.data = <<ed>> \o @]
            ELSE transect_dict[k]]
    ELSE Append(transect_dict, [transect |-> ed.transect, data |-> <<ed>>])

DictAddNewKeyFirst(transect_dict, ed) ==
    IF ed.transect \in DictKeys(transect_dict)
    THEN [k \in 1..Len(transect_dict) |->
            IF transect_dict[k].transect = ed.transect
            THEN [transect_dict[k] EXCEPT !.data = Append(@, ed)]
            ELSE transect_dict[k]]
    ELSE <<[transect |-> ed.transect, data |-> <<ed>>]>> \o transect_dict

DictAdd(transect_dict, ed) ==
    IF ed.transect \in DictKeys(transect_dict)
    THEN [k \in 1..Len(transect_dict) |->
            IF transect_dict[k].transect = ed.transect
            THEN [transect_dict[k] EXCEPT !.data = Append(@, ed)]
            ELSE transect_dict[k]]
    ELSE Append(transect_dict, [transect |-> ed.transect, data |-> <<ed>>])

\* lines 329-338: the loop; it stops at the first record that has its
\* error flag set
RECURSIVE TransectLoop(_, _)
TransectLoop(eds, transect_dict) ==
    IF eds = <<>> THEN [raised |-> FALSE, transect_dict |-> transect_dict]
    ELSE IF HasError(Head(eds))
         THEN [raised |-> TRUE, transect_dict |-> transect_dict]
         ELSE TransectLoop(Tail(eds), DictAdd(transect_dict, Head(eds)))

\* lines 340-344: one Output per key of transect_dict
Outputs(transect_dict) ==
    [k \in 1..Len(transect_dict) |-> [data |-> transect_dict[k].data]]

\* failed records dropped, the others passed through
ProcessOutputTransectsSkipFailed(nm, eds) ==
    LET kept == SelectSeq(eds, LAMBDA ed : ~HasError(ed))
    IN  [kind |-> "return", message |-> <<>>,
         outputs |-> Outputs(TransectLoop(kept, <<>>).transect_dict)]
\* lines 327-344
ProcessOutputTransects(nm, eds) ==
    LET loop == TransectLoop(eds, <<>>)
    IN  IF loop.raised
        THEN [kind |-> "ValueError", message |-> ErrorMessage(nm), outputs |-> <<>>]
        ELSE [kind |-> "return", message |-> <<>>,
              outputs |-> Outputs(loop.transect_dict)]

EdFields == [transect : 1..MaxTransect, error : BOOLEAN]

EdRecords(fields) ==
    [i \in 1..Len(fields) |->
        [id |-> i, transect |-> fields[i].transect, error |-> fields[i].error]]

InitAgg ==
    /\ name \in ProcessNames
    /\ \E len \in 0..MaxEd :
          \E fields \in [1..len -> EdFields] :
             ed_list = EdRecords(fields)
    /\ aggResult = NoAggResult
    /\ regrouped = NoAggResult
    /\ aggPc = "start"
    /\ IdleFlow
    /\ IdleChunk
    /\ IdleParse
    /\ IdleDownload
    /\ IdleStart
    /\ IdleConfig

CallProcessOutputTransects ==
    /\ aggPc = "start"
    /\ aggResult' = ProcessOutputTransects(name, ed_list)
    /\ aggPc' = "done"
    /\ UNCHANGED <<name, ed_list, regrouped, flowVars, chunkVars, parseVars, dlVars, startVars, configVars>>

\* the records of the returned Outputs, output after output
OutputRecords(outputs) ==
    ChainFromIterable([k \in 1..Len(outputs) |-> outputs[k].data])

\* process_output_transects called again on the data it returned
RegroupOutputs ==
    /\ aggPc = "done"
    /\ aggResult.kind = "return"
    /\ regrouped' = ProcessOutputTransects(name, OutputRecords(aggResult.outputs))
    /\ aggPc' = "regrouped"
    /\ UNCHANGED <<name, ed_list, aggResult, flowVars, chunkVars, parseVars, dlVars, startVars, configVars>>

NextAgg ==
    \/ CallProcessOutputTransects
    \/ RegroupOutputs

SpecAgg == InitAgg /\ [][NextAgg]_vars

InputTransects == {ed_list[i].transect : i \in 1..Len(ed_list)}
FirstIndex(tr) == SetMin({i \in 1..Len(ed_list) : ed_list[i].transect = tr})
NoInputError == \A i \in 1..Len(ed_list) : ~ed_list[i].error

\* C11: with no error flag set, there is one Output per distinct transect,
\* in order of first appearance; each holds exactly the input records of
\* its transect in input order, so every record is in exactly one Output.
C11_GroupsByTransect ==
    (aggPc # "start" /\ NoInputError) =>
        /\ aggResult.kind = "return"
        /\ Len(aggResult.outputs) = Cardinality(InputTransects)
        /\ \A k \in 1..Len(aggResult.outputs) :
              LET d == aggResult.outputs[k].data
              IN  /\ d # <<>>
                  /\ d = SelectSeq(ed_list, LAMBDA ed : ed.transect = d[1].transect)
        /\ \A j, k \in 1..Len(aggResult.outputs) :
              j < k =>
                 /\ aggResult.outputs[j].data[1].transect
                       # aggResult.outputs[k].data[1].transect
                 /\ FirstIndex(aggResult.outputs[j].data[1].transect)
                       < FirstIndex(aggResult.outputs[k].data[1].transect)
        /\ \A i \in 1..Len(ed_list) :
              Cardinality({<<k, m>> \in
                    (1..Len(aggResult.outputs)) \X (1..Len(ed_list)) :
                       /\ m <= Len(aggResult.outputs[k].data)
                       /\ aggResult.outputs[k].data[m] = ed_list[i]}) = 1

C11_Witness ==
    /\ aggPc = "done"
    /\ NoInputError
    /\ Len(ed_list) = 4
    /\ ed_list[1].transect = 2
    /\ ed_list[2].transect = 1
    /\ ed_list[3].transect = 2
    /\ Len(aggResult.outputs) = 2
    /\ aggResult.outputs[1].data = <<ed_list[1], ed_list[3]>>

\* C12: for an error-free input, aggregating the concatenated data of the
\* returned Outputs again gives the same groups, in the same order, with
\* the same record order inside each group.
C12_RegroupIsIdentity ==
    aggPc = "regrouped" =>
        /\ regrouped.kind = "return"
        /\ regrouped.outputs = aggResult.outputs

C12_Witness ==
    /\ aggPc = "regrouped"
    /\ Len(ed_list) = 4
    /\ OutputRecords(aggResult.outputs) # ed_list
    /\ Len(regrouped.outputs) = 2
    /\ Len(regrouped.outputs[1].data) = 2

(***************************************************************************)
(* parse_file_path (subflows/fetch/utils.py lines 7-40)                    *)
(***************************************************************************)
\* The named groups a file name pattern may define, and the text each one
\* captures.  Values of the returned dictionary are 4-tuples
\* <<tag, text, text, number>> so that they all compare.
GroupNames == {"date", "time", "instrument", "month", "year", "jday", "datetime"}
DateStrings == {"20170115", "20160301", "20171231"}
TimeStrings == {"030000", "235959"}

Captured(g, date, time) ==
    CASE g = "date" -> date
      [] g = "time" -> time
      [] g = "instrument" -> "EK60"
      [] g = "month" -> "Jan"
      [] g = "year" -> "17"
      [] g = "jday" -> "015"
      [] g = "datetime" -> "20170115T030000"

Literal(s) == <<"str", s, "", 0>>
NoneValue == <<"None", "", "", 0>>
IntValue(i) == <<"int", "", "", i>>

\* dateutil parser.parse(f"{date}{time}"): the datetime the two texts denote
ParserParse(date, time) ==
    [year |-> CASE date = "20170115" -> 2017
                [] date = "20160301" -> 2016
                [] date = "20171231" -> 2017,
     month |-> CASE date = "20170115" -> 1
                 [] date = "20160301" -> 3
                 [] date = "20171231" -> 12,
     day |-> CASE date = "20170115" -> 15
               [] date = "20160301" -> 1
               [] date = "20171231" -> 31,
     clock |-> CASE time = "030000" -> "03:00:00"
                 [] time = "235959" -> "23:59:59"]

\* datetime.isoformat()
IsoFormat(dt) ==
    <<"iso",
      CASE dt.year = 2017 /\ dt.month = 1 /\ dt.day = 15 -> "2017-01-15"
        [] dt.year = 2016 /\ dt.month = 3 /\ dt.day = 1 -> "2016-03-01"
        [] dt.year = 2017 /\ dt.month = 12 /\ dt.day = 31 -> "2017-12-31",
      dt.clock, 0>>

IsLeap(y) == (y % 4 = 0 /\ y % 100 # 0) \/ y % 400 = 0

DaysInMonth(y, m) ==
    IF m = 2 THEN (IF IsLeap(y) THEN 29 ELSE 28)
    ELSE IF m \in {4, 6, 9, 11} THEN 30 ELSE 31

RECURSIVE DaysBefore(_, _)
DaysBefore(y, m) ==
    IF m = 1 THEN 0 ELSE DaysBefore(y, m - 1) + DaysInMonth(y, m - 1)

\* datetime.timetuple().tm_yday
YearDay(dt) == DaysBefore(dt.year, dt.month) + dt.day

\* dict.setdefault and dict.pop
SetDefault(d, k, v) ==
    IF k \in DOMAIN d THEN d
    ELSE [x \in DOMAIN d \cup {k} |-> IF x = k THEN v ELSE d[x]]

Pop(d, k) == [x \in DOMAIN d \ {k} |-> d[x]]

EitherDefined(match_dict) ==
    "date" \in DOMAIN match_dict \/ "time" \in DOMAIN match_dict
\* line 27: if "date" in match_dict and "time" in match_dict
BothDefined(match_dict) ==
    "date" \in DOMAIN match_dict /\ "time" \in DOMAIN match_dict

\* lines 23-40.  file_match is None when the pattern does not match, and
\* file_match[group] raises IndexError for a group the pattern lacks.
ParseFilePath(fm) ==
    IF ~fm.matched THEN [kind |-> "AttributeError", dict |-> <<>>]
    ELSE LET match_dict == [g \in DOMAIN fm.groupdict |-> Literal(fm.groupdict[g])]
         IN  IF BothDefined(match_dict)
             THEN IF ~({"date", "time"} \subseteq DOMAIN fm.groupdict)
                  THEN [kind |-> "IndexError", dict |-> <<>>]
                  ELSE LET datetime_obj ==
                               ParserParse(fm.groupdict["date"], fm.groupdict["time"])
                           file_datetime == IsoFormat(datetime_obj)
                           jday == YearDay(datetime_obj)
                           popped == Pop(Pop(match_dict, "date"), "time")
                           withMonth ==
                               SetDefault(popped, "month", IntValue(datetime_obj.month))
                           withYear ==
                               SetDefault(withMonth, "year", IntValue(datetime_obj.year))
                           withJday == SetDefault(withYear, "jday", IntValue(jday))
                       IN  [kind |-> "return",
                            dict |-> SetDefault(withJday, "datetime", file_datetime)]
             ELSE [kind |-> "return",
                   dict |-> SetDefault(match_dict, "datetime", NoneValue)]

InitParse ==
    /\ \E matched \in BOOLEAN :
          \E groups \in SUBSET GroupNames :
             \E date \in DateStrings :
                \E time \in TimeStrings :
                   file_match =
                      IF matched
                      THEN [matched |-> TRUE,
                            groupdict |-> [g \in groups |-> Captured(g, date, time)]]
                      ELSE NoMatch
    /\ parsed = NoParsed
    /\ parsePc = "start"
    /\ IdleFlow
    /\ IdleChunk
    /\ IdleAgg
    /\ IdleDownload
    /\ IdleStart
    /\ IdleConfig

CallParseFilePath ==
    /\ parsePc = "start"
    /\ parsed' = ParseFilePath(file_match)
    /\ parsePc' = "done"
    /\ UNCHANGED <<file_match, flowVars, chunkVars, aggVars, dlVars, startVars, configVars>>

NextParse ==
    \/ CallParseFilePath

SpecParse == InitParse /\ [][NextParse]_vars

(***************************************************************************)
(* parse_file_path: properties                                             *)
(***************************************************************************)
DefinedGroups == DOMAIN file_match.groupdict

\* C13: for a matching pattern that defines only one of the groups date
\* and time, the record holds the captured fields as captured and no
\* timestamp (its datetime entry is None unless a group of that name was
\* captured); derived values occur only when both groups are defined.
C13_OnlyLiteralFields ==
    (parsePc = "done" /\ file_match.matched) =>
        /\ (("date" \in DefinedGroups) # ("time" \in DefinedGroups)) =>
              /\ parsed.kind = "return"
              /\ DOMAIN parsed.dict = DefinedGroups \cup {"datetime"}
              /\ \A g \in DefinedGroups :
                    parsed.dict[g] = Literal(file_match.groupdict[g])
              /\ "datetime" \notin DefinedGroups =>
                    parsed.dict["datetime"] = NoneValue
        /\ (\E k \in DOMAIN parsed.dict : parsed.dict[k][1] \in {"int", "iso"}) =>
              {"date", "time"} \subseteq DefinedGroups

C13_Witness ==
    /\ parsePc = "done"
    /\ file_match.matched
    /\ DefinedGroups = {"date", "instrument"}
    /\ file_match.groupdict["date"] = "20160301"
    /\ parsed.kind = "return"
    /\ DOMAIN parsed.dict = {"date", "instrument", "datetime"}

(***************************************************************************)
(* download_temp_file and isFile (stages/utils/file_utils.py lines 49-85,  *)
(* 173-190)                                                                *)
(***************************************************************************)
\* A path is the sequence of its components; the last one is the file name.
WorkingDir == "/work/raw"
FilePaths == {<<"https://example.com", "survey", "D20170115-T030000.raw">>,
              <<"s3://bucket", "converted.zarr">>}

\* line 71: os.path.basename
Basename(path) == path[Len(path)]

\* line 72: out_path = working_dir + "/" + fname
OutPath(working_dir, urlpath) == <<working_dir, Basename(urlpath)>>

\* line 188: file_path.endswith(".zarr")
EndsWithZarr(path) == Basename(path) = "converted.zarr"

\* lines 187-190: isFile, on what the file system holds at the path
IsFile(path, held) ==
    IF EndsWithZarr(path) THEN held = "dir" ELSE held = "file"

\* stage.options: None, or a dictionary in which use_raw_offline is
\* missing, False or True
StageOptions == {"None", "missing", "False", "True"}

\* stage.options.get("use_raw_offline")
GetUseRawOffline(options) ==
    IF options = "missing" THEN "None" ELSE options

\* line 76: the condition under which the file is copied
MustDownload(options, out_path, held) ==
    GetUseRawOffline(options) = "False" \/ IsFile(out_path, held) = FALSE

InitDownload ==
    /\ \E path \in FilePaths : raw_file = [file_path |-> path, local_path |-> <<>>]
    /\ target \in {"absent", "file", "dir"}
    /\ dlCalls = <<>>
    /\ IdleFlow
    /\ IdleChunk
    /\ IdleAgg
    /\ IdleParse
    /\ IdleStart
    /\ IdleConfig

DownloadCall(options, outcome, downloaded) ==
    [options |-> options, held_before |-> target, outcome |-> outcome,
     downloaded |-> downloaded]

\* lines 70-85, one call.  source_ok: the remote file can be opened and read.
DownloadTempFile ==
    /\ Len(dlCalls) < MaxDownloadCalls
    /\ \E options \in StageOptions, source_ok \in BOOLEAN :
          LET out_path == OutPath(WorkingDir, raw_file.file_path)
          IN  \/ /\ options = "None"
                 /\ dlCalls' = Append(dlCalls,
                        DownloadCall(options, "AttributeError", FALSE))
                 /\ UNCHANGED <<raw_file, target>>
              \/ /\ options # "None"
                 /\ MustDownload(options, out_path, target)
                 /\ source_ok
                 /\ target # "dir"
                 /\ target' = "file"
                 /\ raw_file' = [raw_file EXCEPT !.local_path = out_path]
                 /\ dlCalls' = Append(dlCalls, DownloadCall(options, "return", TRUE))
              \/ /\ options # "None"
                 /\ MustDownload(options, out_path, target)
                 /\ ~source_ok \/ target = "dir"
                 /\ dlCalls' = Append(dlCalls, DownloadCall(options, "OSError", FALSE))
                 /\ UNCHANGED <<raw_file, target>>
              \/ /\ options # "None"
                 /\ ~MustDownload(options, out_path, target)
                 /\ raw_file' = [raw_file EXCEPT !.local_path = out_path]
                 /\ dlCalls' = Append(dlCalls, DownloadCall(options, "return", FALSE))
                 /\ UNCHANGED target
    /\ UNCHANGED <<flowVars, chunkVars, aggVars, parseVars, startVars, configVars>>

NextDownload ==
    \/ DownloadTempFile

SpecDownload == InitDownload /\ [][NextDownload]_vars

(***************************************************************************)
(* download_temp_file: properties                                          *)
(***************************************************************************)
\* C14: in every call whose stage has an options dictionary and whose
\* copy did not fail, the copy is skipped only when use_raw_offline is true
\* and the target already exists, otherwise the file is downloaded; the
\* call returns the record with local_path set to the target path; and a
\* call with use_raw_offline true that follows a successful call downloads
\* nothing.
C14_SkipOnlyOffline ==
    \A i \in 1..Len(dlCalls) :
        LET c == dlCalls[i]
            skips == c.options = "True" /\ c.held_before # "absent"
        IN  c.outcome = "return" =>
              /\ c.downloaded <=> ~skips
              /\ raw_file.local_path = OutPath(WorkingDir, raw_file.file_path)
              /\ (i > 1 /\ dlCalls[i - 1].outcome = "return" /\ c.options = "True")
                    => ~c.downloaded

\* the divergence itself: a call whose stage options do not enable offline
\* reuse returned without copying the remote file
C14_SkippedWithoutOfflineReuse ==
    \E i \in 1..Len(dlCalls) :
        /\ dlCalls[i].options = "missing"
        /\ dlCalls[i].outcome = "return"
        /\ ~dlCalls[i].downloaded

(***************************************************************************)
(* echoflow_start, get_active_profile, echoflow_create_prefect_profile     *)
(* (stages_v2/subflows/echoflow.py lines 26-132)                           *)
(***************************************************************************)
\* A profile of profiles.toml is the set of settings it defines.  TOML has
\* no null, so a setting that is present has a value that is not None.
CloudProfile == {"PREFECT_API_KEY", "PREFECT_API_URL"}
EmptyProfile == {}
ServerProfile == {"PREFECT_API_URL"}

\* lines 41-47: the profile echoflow_create_prefect_profile writes
CreatedProfile(api_key, workspace_id, account_id) ==
    IF api_key # "None" /\ workspace_id # "None" /\ account_id # "None"
    THEN CloudProfile
    ELSE EmptyProfile

\* f with f[k] = v added or overwritten
WithProfile(f, k, v) ==
    [x \in DOMAIN f \cup {k} |-> IF x = k THEN v ELSE f[x]]

\* lines 26-59: echoflow_create_prefect_profile on the profiles file
EchoflowCreatePrefectProfile(file, profile_name, api_key, workspace_id, account_id, set_active) ==
    [active |-> IF set_active THEN profile_name ELSE file.active,
     profiles |-> WithProfile(file.profiles, profile_name,
                      CreatedProfile(api_key, workspace_id, account_id))]

\* lines 77-89: get_active_profile
GetActiveProfile(file) ==
    IF file.active \in DOMAIN file.profiles
    THEN [kind |-> "return", profile |-> file.profiles[file.active]]
    ELSE [kind |-> "ValueError", profile |-> {}]

\* the profiles files echoflow_start is started with
ProfileFiles ==
    { [active |-> a, profiles |-> f] :
        a \in {"default", "cloud", "echoflow-local"},
        f \in UNION { [D -> {EmptyProfile, ServerProfile, CloudProfile}] :
                        D \in (SUBSET {"default", "cloud", "echoflow-local"}) \ {{}} } }

\* options: storage_options_override missing, None, False or True
StartOptions == {"missing", "None", "False", "True"}

InitStart ==
    /\ \E file \in ProfileFiles :
          /\ \A k \in DOMAIN file.profiles :
                /\ k = "cloud" => file.profiles[k] = CloudProfile
                /\ k = "echoflow-local" => file.profiles[k] = EmptyProfile
                /\ k = "default" => file.profiles[k] # CloudProfile
          /\ profiles = file.profiles
          /\ active = file.active
    /\ internet \in BOOLEAN
    /\ echoflow_config \in BOOLEAN
    /\ start_options \in StartOptions
    /\ storage_options \in {"given"}
    /\ triggerCalls = 0
    /\ startError = "none"
    /\ startPc = "load"
    /\ IdleFlow
    /\ IdleChunk
    /\ IdleAgg
    /\ IdleParse
    /\ IdleDownload
    /\ IdleConfig

\* lines 105-111: load the stored configuration, or create 'echoflow-local'
LoadConfig ==
    /\ startPc = "load"
    /\ IF echoflow_config
       THEN UNCHANGED <<profiles, active, echoflow_config>>
       ELSE LET file == EchoflowCreatePrefectProfile(
                            [active |-> active, profiles |-> profiles],
                            "echoflow-local", "None", "None", "None", FALSE)
            IN  /\ profiles' = file.profiles
                /\ active' = file.active
                /\ echoflow_config' = TRUE
    /\ startPc' = "internet"
    /\ UNCHANGED <<internet, start_options, storage_options, triggerCalls, startError>>
    /\ UNCHANGED <<flowVars, chunkVars, aggVars, parseVars, dlVars, configVars>>

\* lines 113-121: the check of the connection and of the active profile
CheckInternet ==
    /\ startPc = "internet"
    /\ IF internet
       THEN /\ startPc' = "override"
            /\ UNCHANGED startError
       ELSE LET active_profile ==
                    GetActiveProfile([active |-> active, profiles |-> profiles])
            IN  /\ startPc' = "raised"
                /\ startError' =
                      IF active_profile.kind = "ValueError"
                      THEN "ValueError: No profile found."
                      ELSE IF "PREFECT_API_KEY" \notin active_profile.profile
                      THEN "KeyError: PREFECT_API_KEY"
                      ELSE "ValueError: Please connect to internet"
    /\ UNCHANGED <<profiles, active, internet, echoflow_config, start_options,
                   storage_options, triggerCalls>>
    /\ UNCHANGED <<flowVars, chunkVars, aggVars, parseVars, dlVars, configVars>>

\* lines 123-124: storage_options_override
Override ==
    /\ startPc = "override"
    /\ IF start_options = "missing"
       THEN /\ startPc' = "raised"
            /\ startError' = "KeyError: storage_options_override"
            /\ UNCHANGED storage_options
       ELSE /\ startPc' = "trigger"
            /\ storage_options' =
                  IF start_options = "False" THEN "empty" ELSE storage_options
            /\ UNCHANGED startError
    /\ UNCHANGED <<profiles, active, internet, echoflow_config, start_options,
                   triggerCalls>>
    /\ UNCHANGED <<flowVars, chunkVars, aggVars, parseVars, dlVars, configVars>>

\* lines 127-132: the call of pipeline_trigger
Trigger ==
    /\ startPc = "trigger"
    /\ triggerCalls' = triggerCalls + 1
    /\ startPc' = "done"
    /\ UNCHANGED <<profiles, active, internet, echoflow_config, start_options,
                   storage_options, startError>>
    /\ UNCHANGED <<flowVars, chunkVars, aggVars, parseVars, dlVars, configVars>>

NextStart ==
    \/ LoadConfig
    \/ CheckInternet
    \/ Override
    \/ Trigger

SpecStart == InitStart /\ [][NextStart]_vars

(***************************************************************************)
(* echoflow_start: properties                                              *)
(***************************************************************************)
\* the active profile is a local one: it exists and sets no API key
ActiveIsLocal ==
    active \in DOMAIN profiles /\ "PREFECT_API_KEY" \notin profiles[active]

ActiveIsCloud ==
    active \in DOMAIN profiles /\ "PREFECT_API_KEY" \in profiles[active]

\* C15: for a call whose options carry storage_options_override, once
\* echoflow_start has ended: without internet and with a cloud profile
\* active it raised and never called pipeline_trigger; without internet and
\* with a local profile (no API key) active it called pipeline_trigger
\* exactly once; with internet it called pipeline_trigger exactly once.
C15_OfflineNeedsLocalProfile ==
    (startPc \in {"done", "raised"} /\ start_options # "missing") =>
        /\ (~internet /\ ActiveIsCloud) => (startPc = "raised" /\ triggerCalls = 0)
        /\ (~internet /\ ActiveIsLocal) => (startPc = "done" /\ triggerCalls = 1)
        /\ internet => (startPc = "done" /\ triggerCalls = 1)

\* the divergence itself: offline, the freshly created empty local profile
\* is active and the call ended in KeyError before pipeline_trigger
C15_LocalProfileKeyError ==
    /\ ~internet
    /\ active = "echoflow-local"
    /\ ActiveIsLocal
    /\ startError = "KeyError: PREFECT_API_KEY"
    /\ triggerCalls = 0

(***************************************************************************)
(* update_base_config (stages_v2/subflows/echoflow.py lines 180-200)       *)
(***************************************************************************)
BlockNames == {"aws-creds", "azure-creds", "local-creds"}
BlockTypes == {"AWS", "AZCosmos"}

\* line 181: BaseConfig(name=name, type=b_type, active=active, ...)
BaseConfig(block_name, b_type, is_active) ==
    [name |-> block_name, type |-> b_type, active |-> is_active]

\* list.remove(x): the list without its first element equal to x
RECURSIVE ListRemove(_, _)
ListRemove(list, x) ==
    IF list = <<>> THEN <<>>
    ELSE IF Head(list) = x THEN Tail(list)
    ELSE <<Head(list)>> \o ListRemove(Tail(list), x)

\* lines 188-190: 'for b in blocks: if b.name == name: blocks.remove(b)'.
\* The iterator holds an index into the list that is being shortened: after
\* a removal the element that moved into position i is not visited.
RECURSIVE RemoveLoopFrom(_, _, _)
RemoveLoopFrom(list, i, block_name) ==
    IF i > Len(list) THEN list
    ELSE IF list[i].name = block_name
         THEN RemoveLoopFrom(ListRemove(list, list[i]), i + 1, block_name)
         ELSE RemoveLoopFrom(list, i + 1, block_name)

\* a loop that removes nothing
RemoveLoopKeepsAll(list, block_name) == list

RemoveLoop(list, block_name) == RemoveLoopFrom(list, 1, block_name)

\* lines 183-199: the block list that the call stores
UpdatedBlocks(is_stored, current_blocks, aws_base) ==
    IF is_stored
    THEN Append(RemoveLoop(current_blocks, aws_base.name), aws_base)
    ELSE <<aws_base>>

InitConfig ==
    /\ IdleConfig
    /\ IdleFlow
    /\ IdleChunk
    /\ IdleAgg
    /\ IdleParse
    /\ IdleDownload
    /\ IdleStart

\* lines 180-200, one call
UpdateBaseConfig ==
    /\ Len(saved) < MaxConfigCalls
    /\ \E block_name \in BlockNames, b_type \in BlockTypes, is_active \in BOOLEAN :
          LET aws_base == BaseConfig(block_name, b_type, is_active)
          IN  /\ blocks' = UpdatedBlocks(stored, blocks, aws_base)
              /\ saved' = Append(saved, aws_base)
    /\ stored' = TRUE
    /\ UNCHANGED <<flowVars, chunkVars, aggVars, parseVars, dlVars, startVars>>

NextConfig ==
    \/ UpdateBaseConfig

SpecConfig == InitConfig /\ [][NextConfig]_vars

(***************************************************************************)
(* update_base_config: properties                                          *)
(***************************************************************************)
\* the block of the latest call made under a name
LastSavedIndex(block_name) ==
    CHOOSE i \in 1..Len(saved) :
        /\ saved[i].name = block_name
        /\ \A j \in (i + 1)..Len(saved) : saved[j].name # block_name

SavedNames == {saved[i].name : i \in 1..Len(saved)}

====
